---- MODULE Spec2Model ----
(***************************************************************************)
(* A model of IceCertUtils/OpenSSLCertificateUtils.py: the OpenSSL-backed  *)
(* certificate factory (a self-signed CA and the certificates it issues),  *)
(* its certificates, and the openSSL command builder with its temporary    *)
(* files.                                                                  *)
(*                                                                         *)
(* Python strings are sequences of tokens, so that concatenation           *)
(* (alias + "_key.pem") is computed and not assumed injective.             *)
(***************************************************************************)
EXTENDS Integers, Sequences, FiniteSets, TLC

VARIABLES
    live,      \* TRUE once an OpenSSLCertificateFactory has been constructed
    disk,      \* the filesystem under home: path -> content (DOMAIN = existing files)
    certs,     \* self.certs of the factory: alias -> certificate object
    handles,   \* certificate objects create() has returned to the caller
    tempfs,    \* temporary files (tempfile.mkstemp) present on the filesystem
    calls,     \* the openSSL invocations made by the last operation, in order
    lastOp,    \* what the last operation was and how it ended
    given,     \* the arguments of the last call of create
    dnIn,      \* toDNSection: the argument
    dnOut      \* toDNSection: the result ("" before the call)

vars == <<live, disk, certs, handles, tempfs, calls, lastOp, given, dnIn, dnOut>>

(***************************************************************************)
(* Bounds of the model.                                                    *)
(***************************************************************************)
\* random.getrandbits(64) is drawn from 0..MaxSerial
MaxSerial == 1
\* at most this many temporary files may be left behind by failed writes
MaxLeaked == 1

(***************************************************************************)
(* Python values.                                                          *)
(***************************************************************************)
None == <<"<None>">>
EmptyStr == <<>>
Missing == <<"<no attribute>">>

\* Python truthiness of None, "" and non-empty strings
Truthy(v) == v # None /\ v # EmptyStr

\* x or y
Or(x, y) == IF Truthy(x) THEN x ELSE y

(***************************************************************************)
(* toDNSection                                                             *)
(***************************************************************************)
\* the (k, v) list of the loop, in its order
DNFields ==
    << <<"countryName", "C">>,
       <<"organizationalUnitName", "OU">>,
       <<"organizationName", "O">>,
       <<"localityName", "L">>,
       <<"stateOrProvinceName", "ST">>,
       <<"commonName", "CN">>,
       <<"emailAddress", "emailAddress">> >>

ShortNames == {DNFields[i][2] : i \in 1..Len(DNFields)}

\* A value passed as dn: a DistinguishedName object with its attributes
\* (Missing = the object has no such attribute), or a plain string (create
\* passes ip or alias as the dn), which has none of these attributes.
NoAttrs == [n \in ShortNames |-> Missing]
DNObject(attrs) == [attrs |-> attrs, text |-> <<"<DistinguishedName>">>]
StrValue(s) == [attrs |-> NoAttrs, text |-> s]
NoneValue == StrValue(None)

\* truthiness of a dn argument: None and "" are false, an object is true
TruthyValue(d) == Truthy(d.text)

hasattr(dn, v) == dn.attrs[v] # Missing

getattr(dn, v) == dn.attrs[v]

\* "{k} = {v}\n".format(k = k, v = value)
FormatDNLine(k, value) == <<k, " = ">> \o value \o <<"\n">>

\* an iteration that does not test the value
DNLineNoValueCheck(dn, i) ==
    IF hasattr(dn, DNFields[i][2])
    THEN FormatDNLine(DNFields[i][1], getattr(dn, DNFields[i][2]))
    ELSE <<>>

\* one iteration of the loop: the line appended to s for the i-th pair
DNLine(dn, i) ==
    IF hasattr(dn, DNFields[i][2])
    THEN LET value == getattr(dn, DNFields[i][2])
         IN  IF Truthy(value)
             THEN FormatDNLine(DNFields[i][1], value)
             ELSE <<>>
    ELSE <<>>

RECURSIVE DNLoop(_, _)
DNLoop(dn, i) ==
    IF i > Len(DNFields) THEN <<>>
    ELSE DNLine(dn, i) \o DNLoop(dn, i + 1)

\* s = "[ dn ]\n", then the loop
toDNSection(dn) == <<"[ dn ]", "\n">> \o DNLoop(dn, 1)

(***************************************************************************)
(* Paths and certificate objects                                           *)
(***************************************************************************)
\* self.parent.home, with its trailing separator
Home == <<"home/">>

\* os.path.join(home, name)
join(home, name) == home \o name

CaAlias == <<"ca">>

\* the aliases callers use; "s" + "_key" is an alias too
Aliases == { CaAlias, <<"s">>, <<"s", "_key">> }

\* OpenSSLCertificate.__init__; oid tells the objects apart ("cacert": the one
\* built by the factory's constructor; "created": one built by create). The
\* dn attribute is read only where the object is made, and is kept there.
OpenSSLCertificate(alias, oid) ==
    [ alias |-> alias,
      pem   |-> join(Home, alias \o <<".pem">>),
      key   |-> join(Home, alias \o <<"_key", ".pem">>),
      oid   |-> oid ]

\* os.path.exists on filesystem d
PathExists(d, path) == path \in DOMAIN d

\* OpenSSLCertificate.exists
exists(d, cert) == PathExists(d, cert.pem) /\ PathExists(d, cert.key)

\* os.remove(path) on filesystem d
Remove(d, path) == [q \in (DOMAIN d) \ {path} |-> d[q]]

(***************************************************************************)
(* Keyword arguments, temporary files                                      *)
(***************************************************************************)
KargKeys == {"config", "extfile", "password", "out", "inkey", "CAfile",
             "outform", "set_serial", "stdin"}

\* the value of a keyword that was not passed
NotGiven == <<"<not given>">>

NoKargs == [k \in KargKeys |-> NotGiven]

\* kargs.get(k, None)
Get(kargs, k) == IF kargs[k] = NotGiven THEN None ELSE kargs[k]

\* del kargs[k]
Del(kargs, k) == [kargs EXCEPT ![k] = NotGiven]

Range(seq) == {seq[i] : i \in 1..Len(seq)}

In(x, seq) == x \in Range(seq)

\* str(n) for the small numbers of the model
str(n) ==
    CASE n = 0 -> "0" [] n = 1 -> "1" [] n = 2 -> "2" [] n = 3 -> "3" [] n = 4 -> "4"
      [] n = 5 -> "5" [] n = 6 -> "6" [] n = 7 -> "7" [] n = 8 -> "8" [] n = 9 -> "9"

TmpPath(n) == <<"/tmp/tmp", str(n)>>

\* tempfile.mkstemp(): a name no existing temporary file has (fs: the existing ones)
mkstemp(fs) ==
    TmpPath(CHOOSE n \in 1..(Cardinality(fs) + 1) :
                /\ TmpPath(n) \notin fs
                /\ \A m \in 1..(n - 1) : TmpPath(m) \in fs)

\* str.format of one value: None prints as "None"
Str(v) == IF v = None THEN <<"None">> ELSE v

(***************************************************************************)
(* The factory's configuration (attributes set by CertificateFactory)      *)
(***************************************************************************)
ThisKeyalg == <<"rsa">>
ThisKeysize == <<"2048">>
ThisSigalg == <<"sha256">>
ThisValidity == <<"825">>
\* self.passpath: the file that holds the CA key's passphrase
ThisPasspath == <<"home/", "passphrase">>

\* self.cacert = OpenSSLCertificate(self, self.dn, "ca")
FactoryDN == DNObject([NoAttrs EXCEPT !["CN"] = <<"Test CA">>])
cacert == OpenSSLCertificate(CaAlias, "cacert")

(***************************************************************************)
(* OpenSSLCertificateFactory.openSSL: building the command                 *)
(***************************************************************************)
\* command.format(cert = cert, cacert = self.cacert, this = self, passpath = passpath)
FormatToken(t, cert, passpath) ==
    CASE t = "{cert.key}"        -> Str(cert.key)
      [] t = "{cert.pem}"        -> Str(cert.pem)
      [] t = "{cert.alias}"      -> Str(cert.alias)
      [] t = "{cacert.pem}"      -> Str(cacert.pem)
      [] t = "{cacert.key}"      -> Str(cacert.key)
      [] t = "{this.keyalg}"     -> Str(ThisKeyalg)
      [] t = "{this.keysize}"    -> Str(ThisKeysize)
      [] t = "{this.sigalg}"     -> Str(ThisSigalg)
      [] t = "{this.validity}"   -> Str(ThisValidity)
      [] t = "{this.passpath}"   -> Str(ThisPasspath)
      [] t = "{passpath}"        -> Str(passpath)
      [] OTHER                   -> <<t>>

\* one space-separated word of the command: its pieces, formatted and joined
FormatWord(word, cert, passpath) ==
    IF Len(word) = 1 THEN FormatToken(word[1], cert, passpath)
    ELSE IF Len(word) = 2
    THEN FormatToken(word[1], cert, passpath) \o FormatToken(word[2], cert, passpath)
    ELSE FormatToken(word[1], cert, passpath) \o FormatToken(word[2], cert, passpath)
         \o FormatToken(word[3], cert, passpath)

\* the command is kept as the sequence of its space-separated words
Format(command, cert, passpath) ==
    [i \in 1..Len(command) |-> FormatWord(command[i], cert, passpath)]

\* lines 136-144, one iteration: st carries kargs, command, tmpfiles (in the
\* order of creation) and what was written to each; fs is the set of
\* temporary files that existed when openSSL was entered
ConsumeData(st, a, fs) ==
    LET data == Get(st.kargs, a)
        path == mkstemp(fs \cup Range(st.tmpfiles))
    IN  IF Truthy(data)
        THEN [ kargs    |-> Del(st.kargs, a),
               command  |-> st.command \o << <<"-", a>>, path >>,
               tmpfiles |-> Append(st.tmpfiles, path),
               written  |-> Append(st.written, data),
               passpath |-> st.passpath ]
        ELSE st

\* lines 147-158: the password goes to a temporary file
ConsumePassword(st, fs) ==
    LET password == Get(st.kargs, "password")
        path == mkstemp(fs \cup Range(st.tmpfiles))
    IN  IF Truthy(password)
        THEN [ kargs    |-> Del(st.kargs, "password"),
               command  |-> st.command,
               tmpfiles |-> Append(st.tmpfiles, path),
               written  |-> Append(st.written, password),
               passpath |-> path ]
        ELSE st

\* lines 163-190: the parameters each kind of command gets
CommandParameters(cmd, args) ==
    (IF cmd = "req"
     THEN << <<"-keyform">>, <<"PEM">>, <<"-keyout">>, <<"{cert.key}">>,
             <<"-newkey">>, <<"{this.keyalg}", ":", "{this.keysize}">> >>
          \o (IF In("-x509", args)
              THEN << <<"-out">>, <<"{cert.pem}">>, <<"-passout">>,
                      <<"file:", "{this.passpath}">> >>
              ELSE << <<"-nodes">> >>)
     ELSE <<>>)
    \o
    (IF (cmd = "req" /\ In("-x509", args)) \/ (cmd = "x509" /\ In("-req", args))
     THEN << <<"-", "{this.sigalg}">>, <<"-days">>, <<"{this.validity}">> >>
     ELSE <<>>)
    \o
    (IF cmd = "x509" /\ In("-req", args)
     THEN << <<"-CA">>, <<"{cacert.pem}">>, <<"-CAkey">>, <<"{cacert.key}">>,
             <<"-passin">>, <<"file:", "{this.passpath}">>, <<"-extensions">>, <<"ext">>,
             <<"-out">>, <<"{cert.pem}">> >>
     ELSE <<>>)
    \o
    (IF cmd = "x509" /\ ~In("-req", args)
     THEN << <<"-in">>, <<"{cert.pem}">> >>
     ELSE IF cmd = "pkcs12"
     THEN << <<"-in">>, <<"{cert.pem}">>, <<"-name">>, <<"{cert.alias}">>,
             <<"-export">>, <<"-passout">>, <<"file:", "{passpath}">> >>
     ELSE <<>>)

\* lines 128-192: everything openSSL does before it calls run
BuildCommand(cmd, args, kargs, cert, fs) ==
    LET st0 == [ kargs    |-> kargs,
                 command  |-> << <<"openssl">>, <<cmd>> >>,
                 tmpfiles |-> <<>>,
                 written  |-> <<>>,
                 passpath |-> None ]
        st1 == ConsumeData(st0, "config", fs)
        st2 == ConsumeData(st1, "extfile", fs)
        st3 == ConsumePassword(st2, fs)
    IN  [ kargs    |-> st3.kargs,
          command  |-> Format(st3.command \o CommandParameters(cmd, args), cert, st3.passpath),
          tmpfiles |-> st3.tmpfiles,
          written  |-> st3.written,
          passpath |-> st3.passpath ]

(***************************************************************************)
(* The toolkit: what the openssl process does with a command line          *)
(***************************************************************************)
\* the word after option opt on the command line, None without the option
OptValue(line, opt) ==
    LET at == {i \in 1..(Len(line) - 1) : line[i] = opt}
    IN  IF at = {} THEN None
        ELSE line[(CHOOSE i \in at : \A j \in at : i <= j) + 1]

\* the path named by a file:<path> argument
FileArg(word) == IF word # <<>> /\ Head(word) = "file:" THEN Tail(word) ELSE word

\* the process can read path: a file of d, a temporary file, or the CA's passphrase
Readable(d, tmp, path) == path \in DOMAIN d \/ path \in tmp \/ path = ThisPasspath

\* keyword k was passed
Given(kargs, k) == kargs[k] # NotGiven

Outcomes == {"ok", "fail"}

\* what kind of command the process was given
IsRoot(cmd, args) == cmd = "req" /\ In("-x509", args)
IsReq(cmd, args)  == cmd = "req" /\ ~In("-x509", args)
IsSign(cmd, args) == cmd = "x509" /\ In("-req", args)
IsX509(cmd, args) == cmd = "x509" /\ ~In("-req", args)
IsP12(cmd)        == cmd = "pkcs12"

\* every input the command names can be read
InputsOk(cmd, command, args, kargs, d, tmp) ==
    /\ cmd = "req" => Readable(d, tmp, OptValue(command, <<"-", "config">>))
    /\ IsRoot(cmd, args) => Readable(d, tmp, FileArg(OptValue(command, <<"-passout">>)))
    /\ IsSign(cmd, args) =>
          /\ Readable(d, tmp, OptValue(command, <<"-CA">>))
          /\ Readable(d, tmp, OptValue(command, <<"-CAkey">>))
          /\ Readable(d, tmp, FileArg(OptValue(command, <<"-passin">>)))
          /\ Readable(d, tmp, OptValue(command, <<"-", "extfile">>))
          /\ Truthy(Get(kargs, "stdin"))
    /\ (IsX509(cmd, args) \/ IsP12(cmd)) => Readable(d, tmp, OptValue(command, <<"-in">>))
    /\ IsP12(cmd) =>
          /\ Readable(d, tmp, FileArg(OptValue(command, <<"-passout">>)))
          /\ Given(kargs, "inkey") => Readable(d, tmp, kargs["inkey"])
          /\ Given(kargs, "CAfile") => Readable(d, tmp, kargs["CAfile"])
          /\ Given(kargs, "inkey") \/ In("-nokeys", args)

\* the files a successful run writes: the path and the kind of content
Outputs(cmd, args, kargs, keyout, outPath) ==
    (IF cmd = "req" THEN {<<keyout, <<"KEY">> >>} ELSE {})
    \cup
    (IF IsRoot(cmd, args) \/ IsSign(cmd, args) THEN {<<outPath, <<"CERT">> >>}
     ELSE IF (IsX509(cmd, args) \/ IsP12(cmd)) /\ Given(kargs, "out")
     THEN {<<kargs["out"], <<cmd>> >>}
     ELSE {})

\* filesystem d after the files of outs are written
WriteAll(d, outs) ==
    [q \in (DOMAIN d) \cup {o[1] : o \in outs} |->
        IF \E o \in outs : o[1] = q THEN (CHOOSE o \in outs : o[1] = q)[2] ELSE d[q]]

\* the result of a run, success telling whether it does its work
ToolkitResult(cmd, args, d, keyout, outs, success) ==
    [ rc     |-> IF success THEN 0 ELSE 1,
      stdout |-> IF success /\ IsReq(cmd, args) THEN <<"CSR for ">> \o keyout ELSE EmptyStr,
      disk   |-> IF success THEN WriteAll(d, outs) ELSE d,
      wrote  |-> IF success THEN {o[1] : o \in outs} ELSE {} ]

\* The effect of one run of the toolkit on filesystem d, with temporary files
\* tmp present. outcome: what the process does when all its inputs are
\* readable: it does its work and exits 0 ("ok"), or exits nonzero ("fail").
\* A missing input makes it exit nonzero. wrote: the paths it wrote.
Toolkit(cmd, command, args, kargs, d, tmp, outcome) ==
    ToolkitResult(cmd, args, d, OptValue(command, <<"-keyout">>),
                  Outputs(cmd, args, kargs, OptValue(command, <<"-keyout">>),
                          OptValue(command, <<"-out">>)),
                  InputsOk(cmd, command, args, kargs, d, tmp) /\ outcome = "ok")

(***************************************************************************)
(* OpenSSLCertificateFactory.openSSL                                       *)
(***************************************************************************)
\* a failure of the k-th tempfile.mkstemp() or os.write() of the call
NoFault == [k |-> 0, at |-> "none"]
Faults == {NoFault} \cup [k : {1}, at : {"mkstemp", "write"}]

\* what the environment does to one call: the toolkit's outcome, or a system
\* call that fails before the toolkit runs
ToolkitEvents == {[f |-> NoFault, o |-> x] : x \in Outcomes}
Events == ToolkitEvents \cup {[f |-> ft, o |-> "fail"] : ft \in Faults \ {NoFault}}
Ok == [f |-> NoFault, o |-> "ok"]

SubSeqTo(seq, n) == [i \in 1..n |-> seq[i]]

\* a "finally" clause that removes nothing
RemoveNone(fs, tmpfiles) == fs

\* the "finally" clause: every temporary file of the call is removed
RemoveTmpfiles(fs, tmpfiles) == fs \ Range(tmpfiles)

\* the temporary files made before the fault of event, all of them without one
MadeFiles(b, event) ==
    IF event.f.k >= 1 /\ event.f.k <= Len(b.tmpfiles)
    THEN SubSeqTo(b.tmpfiles, IF event.f.at = "write" THEN event.f.k ELSE event.f.k - 1)
    ELSE b.tmpfiles

\* the record of one call: what was built, and how the run ended
CallRecord(cmd, args, b, made, ran, rc) ==
    [ cmd      |-> cmd,
      args     |-> args,
      command  |-> b.command,
      kargs    |-> b.kargs,
      tmpfiles |-> made,
      written  |-> SubSeqTo(b.written, Len(made)),
      passpath |-> b.passpath,
      ran      |-> ran,
      rc       |-> rc ]

\* lines 193-197: run, then the "finally" clause; t: the toolkit's run
RunAndCleanUp(cmd, args, b, fs, t) ==
    [ raised |-> IF t.rc = 0 THEN "none" ELSE "CommandFailed",
      ret    |-> t.stdout,
      disk   |-> t.disk,
      fs     |-> RemoveTmpfiles(fs \cup Range(b.tmpfiles), b.tmpfiles),
      wrote  |-> t.wrote,
      call   |-> CallRecord(cmd, args, b, b.tmpfiles, TRUE, t.rc) ]

\* openSSL once the command b is known: a system call fails while the
\* temporary files are made, or the toolkit runs
RunCommand(cmd, args, b, d, fs, event) ==
    IF event.f.k >= 1 /\ event.f.k <= Len(b.tmpfiles)
    THEN [ raised |-> "OSError", ret |-> EmptyStr, disk |-> d,
           fs     |-> fs \cup Range(MadeFiles(b, event)),
           wrote  |-> {},
           call   |-> CallRecord(cmd, args, b, MadeFiles(b, event), FALSE, 1) ]
    ELSE RunAndCleanUp(cmd, args, b, fs,
                       Toolkit(cmd, b.command, args, b.kargs, d,
                               fs \cup Range(b.tmpfiles), event.o))

\* One call of openSSL with temporary files fs and filesystem d. The result:
\* raised ("none", or the exception that leaves the call), ret (the captured
\* output), the filesystem and the temporary files afterwards, the paths
\* written, and a record of the call.
openSSL(cmd, args, kargs, cert, d, fs, event) ==
    RunCommand(cmd, args, BuildCommand(cmd, args, kargs, cert, fs), d, fs, event)

(***************************************************************************)
(* OpenSSLCertificateFactory.__init__                                      *)
(***************************************************************************)
EmptyMap == [a \in {} |-> cacert]

\* the config of the self-signed CA certificate (lines 75-85)
RootConfig(dn) ==
    <<"\n", "[ req ]", "\n", "x509_extensions = ext", "\n",
      "distinguished_name = dn", "\n", "prompt = no", "\n",
      "[ ext ]", "\n", "basicConstraints = CA:true", "\n",
      "subjectKeyIdentifier = hash", "\n",
      "authorityKeyIdentifier = keyid:always,issuer:always", "\n">>
    \o toDNSection(dn) \o <<"\n">>

\* a constructor that makes the CA certificate every time
BootstrapAlways(d) == TRUE

\* line 73: the CA certificate is made only when it is not on disk
NeedsBootstrap(d) == ~exists(d, cacert)

\* the constructor after its call r of openSSL
Bootstrapped(r) ==
    [ raised |-> r.raised, branch |-> "bootstrap", disk |-> r.disk,
      fs |-> r.fs, wrote |-> r.wrote, calls |-> <<r.call>> ]

\* The constructor on filesystem d with temporary files fs; event: what the
\* environment does to the call of the toolkit.
init(d, fs, event) ==
    IF NeedsBootstrap(d)
    THEN Bootstrapped(openSSL("req", <<"-x509">>,
                              [NoKargs EXCEPT !["config"] = RootConfig(FactoryDN)],
                              cacert, d, fs, event))
    ELSE [ raised |-> "none", branch |-> "present", disk |-> d, fs |-> fs,
           wrote |-> {}, calls |-> <<>> ]

(***************************************************************************)
(* OpenSSLCertificateFactory.create                                        *)
(***************************************************************************)
\* a template with the IP entry before the DNS entry
SubAltNameIPFirst(ip, dns) ==
    IF Truthy(ip) /\ Truthy(dns)
    THEN <<"subjectAltName = ", "IP: ", "{ip}", ", ", "DNS: ", "{dns}">>
    ELSE IF Truthy(ip) THEN <<"subjectAltName = ", "IP: ", "{ip}">>
    ELSE IF Truthy(dns) THEN <<"subjectAltName = ", "DNS: ", "{dns}">>
    ELSE EmptyStr

\* lines 97-103: the template of the subjectAltName line
SubAltNameTemplate(ip, dns) ==
    IF Truthy(ip) /\ Truthy(dns)
    THEN <<"subjectAltName = ", "DNS: ", "{dns}", ", ", "IP: ", "{ip}">>
    ELSE IF Truthy(ip) THEN <<"subjectAltName = ", "IP: ", "{ip}">>
    ELSE IF Truthy(dns) THEN <<"subjectAltName = ", "DNS: ", "{dns}">>
    ELSE EmptyStr

\* subAltName.format(dns = dns, ip = ip)
RECURSIVE FormatSAN(_, _, _)
FormatSAN(t, ip, dns) ==
    IF t = <<>> THEN <<>>
    ELSE (CASE Head(t) = "{dns}" -> Str(dns)
            [] Head(t) = "{ip}"  -> Str(ip)
            [] OTHER             -> <<Head(t)>>) \o FormatSAN(Tail(t), ip, dns)

\* the config of the certificate request (lines 107-112)
ReqConfig(dn) ==
    <<"\n", "[ req ]", "\n", "distinguished_name = dn", "\n", "prompt = no", "\n">>
    \o toDNSection(dn) \o <<"\n">>

\* the extensions of the signed certificate (lines 116-122)
ExtFile(ip, dns) ==
    <<"\n", "[ ext ]", "\n", "subjectKeyIdentifier = hash", "\n",
      "authorityKeyIdentifier = keyid:always,issuer:always", "\n",
      "keyUsage = nonRepudiation, digitalSignature, keyEncipherment", "\n">>
    \o FormatSAN(SubAltNameTemplate(ip, dns), ip, dns) \o <<"\n">>

\* line 92: dn or ip or alias
CertDN(dn, ip, alias) == IF TruthyValue(dn) THEN dn ELSE StrValue(Or(ip, alias))

\* a create that never finds the alias in the cache
NotCached(cache, alias) == FALSE

\* line 89
IsCached(cache, alias) == alias \in DOMAIN cache

\* self.certs[alias] = cert
Put(cache, alias, cert) ==
    [a \in (DOMAIN cache) \cup {alias} |-> IF a = alias THEN cert ELSE cache[a]]

\* a create that puts the certificate in the cache whatever the sign call did
SignedOrNot(cert, cache, req, sign) ==
    [ raised |-> sign.raised,
      branch |-> IF sign.raised = "none" THEN "issued" ELSE "signFailed",
      ret    |-> IF sign.raised = "none" THEN <<cert>> ELSE <<>>,
      certs  |-> Put(cache, cert.alias, cert), disk |-> sign.disk,
      fs |-> sign.fs, wrote |-> req.wrote \cup sign.wrote,
      calls |-> <<req.call, sign.call>> ]

\* lines 114-125: after the call sign of openSSL; req: the call before it
Signed(cert, cache, req, sign) ==
    IF sign.raised # "none"
    THEN [ raised |-> sign.raised, branch |-> "signFailed", ret |-> <<>>,
           certs |-> cache, disk |-> sign.disk, fs |-> sign.fs,
           wrote |-> req.wrote \cup sign.wrote,
           calls |-> <<req.call, sign.call>> ]
    ELSE [ raised |-> "none", branch |-> "issued", ret |-> <<cert>>,
           certs |-> Put(cache, cert.alias, cert), disk |-> sign.disk,
           fs |-> sign.fs, wrote |-> req.wrote \cup sign.wrote,
           calls |-> <<req.call, sign.call>> ]

\* a create that goes on to sign whatever the request call did
RequestedThenSigned(cert, ip, dns, cache, env, req) ==
    Signed(cert, cache, req,
           openSSL("x509", <<"-req">>,
                   [NoKargs EXCEPT !["set_serial"] = <<str(env.serial)>>,
                                   !["stdin"] = req.ret,
                                   !["extfile"] = ExtFile(ip, dns)],
                   cert, req.disk, req.fs, env.e2))

\* lines 106-122: after the call req of openSSL: it raised, or the request
\* is signed
Requested(cert, ip, dns, cache, env, req) ==
    IF req.raised # "none"
    THEN [ raised |-> req.raised, branch |-> "reqFailed", ret |-> <<>>,
           certs |-> cache, disk |-> req.disk, fs |-> req.fs,
           wrote |-> req.wrote, calls |-> <<req.call>> ]
    ELSE Signed(cert, cache, req,
                openSSL("x509", <<"-req">>,
                        [NoKargs EXCEPT !["set_serial"] = <<str(env.serial)>>,
                                        !["stdin"] = req.ret,
                                        !["extfile"] = ExtFile(ip, dns)],
                        cert, req.disk, req.fs, env.e2))

\* lines 105-125: the request, the signature, the cache entry
Issue(cert, dn, ip, dns, cache, d, fs, env) ==
    Requested(cert, ip, dns, cache, env,
              openSSL("req", <<>>,
                      [NoKargs EXCEPT !["config"] = ReqConfig(CertDN(dn, ip, cert.alias))],
                      cert, d, fs, env.e1))

\* a create that does not look on disk
AdoptNever(cert, dn, ip, dns, cache, d, fs, env) ==
    Issue(cert, dn, ip, dns, cache, d, fs, env)

\* lines 92-95: a certificate found on disk is put in the cache as it is
Adopt(cert, dn, ip, dns, cache, d, fs, env) ==
    IF exists(d, cert)
    THEN [ raised |-> "none", branch |-> "adopted", ret |-> <<cert>>,
           certs |-> Put(cache, cert.alias, cert), disk |-> d, fs |-> fs,
           wrote |-> {}, calls |-> <<>> ]
    ELSE Issue(cert, dn, ip, dns, cache, d, fs, env)

\* create(alias, dn, ip, dns) with cache, filesystem d and temporary files fs;
\* env: the two events and the random serial number
create(alias, dn, ip, dns, cache, d, fs, env) ==
    IF IsCached(cache, alias)
    THEN [ raised |-> "none", branch |-> "cached", ret |-> <<cache[alias]>>,
           certs |-> cache, disk |-> d, fs |-> fs, wrote |-> {}, calls |-> <<>> ]
    ELSE Adopt(OpenSSLCertificate(alias, "created"), dn, ip, dns, cache, d, fs, env)

(***************************************************************************)
(* OpenSSLCertificate: savePKCS12 and destroy                              *)
(***************************************************************************)
\* self == self.parent.cacert: the very object the constructor made
IsCacert(cert) == cert.oid = cacert.oid

\* an export that treats every certificate as a leaf with its chain
PKCS12CallLeaf(cert, path, password, chain) ==
    [ args  |-> <<"-chain">>,
      kargs |-> [NoKargs EXCEPT !["out"] = path, !["inkey"] = cert.key,
                                !["CAfile"] = cacert.pem,
                                !["password"] = password] ]

\* lines 40-48: the arguments of the export, by the kind of certificate
PKCS12Call(cert, path, password, chain) ==
    IF IsCacert(cert)
    THEN [ args  |-> <<"-nokeys">>,
           kargs |-> [NoKargs EXCEPT !["out"] = path, !["password"] = password] ]
    ELSE IF chain
    THEN [ args  |-> <<"-chain">>,
           kargs |-> [NoKargs EXCEPT !["out"] = path, !["inkey"] = cert.key,
                                     !["CAfile"] = cacert.pem,
                                     !["password"] = password] ]
    ELSE [ args  |-> <<>>,
           kargs |-> [NoKargs EXCEPT !["out"] = path, !["inkey"] = cert.key,
                                     !["password"] = password] ]

savePKCS12(cert, path, password, chain, d, fs, event) ==
    LET c == PKCS12Call(cert, path, password, chain)
    IN  openSSL("pkcs12", c.args, c.kargs, cert, d, fs, event)

\* Certificate.destroy of the base class: removes the certificate artifact
\* and drops the cache entry. Whether a missing certificate file is an error
\* is not stated: strict decides it.
CertificateDestroy(cert, d, cache, strict) ==
    IF ~PathExists(d, cert.pem) /\ strict
    THEN [ raised |-> "OSError", disk |-> d, certs |-> cache, wrote |-> {} ]
    ELSE [ raised |-> "none",
           disk   |-> Remove(d, cert.pem),
           certs  |-> [a \in {x \in DOMAIN cache : cache[x] # cert} |-> cache[a]],
           wrote  |-> {cert.pem} \cap DOMAIN d ]

\* a destroy that leaves the key file alone
KeepKey(d, cert) == [raised |-> FALSE, disk |-> d, wrote |-> {}]

\* a destroy that removes the key file without looking for it first
RemoveKeyUnchecked(d, cert) ==
    IF PathExists(d, cert.key)
    THEN [raised |-> FALSE, disk |-> Remove(d, cert.key), wrote |-> {cert.key}]
    ELSE [raised |-> TRUE, disk |-> d, wrote |-> {}]

\* lines 60-61: the key is removed when it is there; raised: os.remove failed
RemoveKey(d, cert) ==
    IF PathExists(d, cert.key)
    THEN [raised |-> FALSE, disk |-> Remove(d, cert.key), wrote |-> {cert.key}]
    ELSE [raised |-> FALSE, disk |-> d, wrote |-> {}]

\* destroy after the key was dealt with: k
KeyRemoved(cert, d, cache, strict, k) ==
    IF k.raised
    THEN [ raised |-> "OSError:key", disk |-> d, certs |-> cache, wrote |-> {} ]
    ELSE [CertificateDestroy(cert, k.disk, cache, strict) EXCEPT
              !.wrote = k.wrote \cup @]

\* OpenSSLCertificate.destroy
destroy(cert, d, cache, strict) ==
    KeyRemoved(cert, d, cache, strict, RemoveKey(d, cert))

(***************************************************************************)
(* The state machine: a caller using one factory at a time on one home     *)
(***************************************************************************)
\* the arguments callers pass
Passwords == { None, EmptyStr, <<"password">> }
OutPath == <<"out/", "bundle">>

DNArgs == { NoneValue,
            DNObject([NoAttrs EXCEPT !["C"] = <<"US">>, !["O"] = EmptyStr,
                                     !["CN"] = <<"server">>]) }
IPArgs == { None, EmptyStr, <<"10.0.0.1">> }
DNSArgs == { None, EmptyStr, <<"a.example.com">> }

\* every call of create
AllArgs == [alias : Aliases, dn : DNArgs, ip : IPArgs, dns : DNSArgs]

\* the calls of create the caller of Spec makes
SomeArgs == { a \in AllArgs :
                 /\ a.dn = NoneValue
                 /\ \/ a.ip = None /\ a.dns = None
                    \/ a.alias = <<"s">> /\ a.ip = <<"10.0.0.1">> /\ a.dns = <<"a.example.com">> }

\* the call of create the caller of SpecExport makes
OneArgs == { a \in SomeArgs : a.alias = <<"s">> /\ a.ip = None }

NoArgs == [alias |-> EmptyStr, dn |-> NoneValue, ip |-> None, dns |-> None]

NoPre == [cached |-> FALSE, pem |-> FALSE, key |-> FALSE]

\* what held of alias before the operation
Pre(alias) ==
    [ cached |-> IsCached(certs, alias),
      pem    |-> PathExists(disk, join(Home, alias \o <<".pem">>)),
      key    |-> PathExists(disk, join(Home, alias \o <<"_key", ".pem">>)) ]

NoOp == [ op |-> "none", alias |-> EmptyStr, oid |-> "none",
          password |-> None, chain |-> FALSE, pre |-> NoPre, raised |-> "none",
          branch |-> "none", ret |-> <<>>, wrote |-> {} ]

Init ==
    /\ live = FALSE
    /\ disk = [q \in {} |-> EmptyStr]
    /\ certs = EmptyMap
    /\ handles = {}
    /\ tempfs = {}
    /\ calls = <<>>
    /\ lastOp = NoOp
    /\ given = NoArgs
    /\ dnIn = NoneValue
    /\ dnOut = EmptyStr

\* what a call of the constructor leaves in the state: a new factory replaces
\* the caller's previous one; when the constructor raises there is no new one
Constructed(r) ==
    /\ Cardinality(r.fs) <= MaxLeaked
    /\ disk' = r.disk
    /\ tempfs' = r.fs
    /\ calls' = r.calls
    /\ IF r.raised = "none"
       THEN live' = TRUE /\ certs' = EmptyMap /\ handles' = {}
       ELSE UNCHANGED <<live, certs, handles>>
    /\ lastOp' = [NoOp EXCEPT !.op = "init", !.alias = CaAlias,
                              !.oid = cacert.oid, !.pre = Pre(CaAlias),
                              !.raised = r.raised, !.branch = r.branch,
                              !.wrote = r.wrote]
    /\ UNCHANGED <<given, dnIn, dnOut>>

\* OpenSSLCertificateFactory(home = Home) under every behaviour of events
ConstructWith(events) ==
    \E e1 \in (IF NeedsBootstrap(disk) THEN events ELSE {Ok}) :
        Constructed(init(disk, tempfs, e1))

\* what a call of create leaves in the state
Created(a, r) ==
    /\ Cardinality(r.fs) <= MaxLeaked
    /\ disk' = r.disk
    /\ tempfs' = r.fs
    /\ calls' = r.calls
    /\ certs' = r.certs
    /\ handles' = handles \cup Range(r.ret)
    /\ given' = a
    /\ lastOp' = [NoOp EXCEPT !.op = "create", !.alias = a.alias, !.oid = "created",
                              !.pre = Pre(a.alias), !.raised = r.raised,
                              !.branch = r.branch, !.ret = r.ret, !.wrote = r.wrote]
    /\ UNCHANGED <<live, dnIn, dnOut>>

\* create(a.alias, a.dn, a.ip, a.dns) under every behaviour of the environment
CreateWith(a, events) ==
    \E e1 \in (IF IsCached(certs, a.alias) THEN {Ok} ELSE events) :
    \E e2 \in (IF e1 = Ok THEN events ELSE {Ok}) :
    \E serial \in (IF e1 = Ok /\ e2 = Ok THEN 0..MaxSerial ELSE {0}) :
        Created(a, create(a.alias, a.dn, a.ip, a.dns, certs, disk, tempfs,
                          [e1 |-> e1, e2 |-> e2, serial |-> serial]))

\* the certificate objects the caller can reach
Reachable == IF live THEN handles \cup {cacert} ELSE {}

\* what a call of savePKCS12 leaves in the state
Exported(cert, password, chain, r) ==
    /\ Cardinality(r.fs) <= MaxLeaked
    /\ disk' = r.disk
    /\ tempfs' = r.fs
    /\ calls' = <<r.call>>
    /\ lastOp' = [NoOp EXCEPT !.op = "savePKCS12", !.alias = cert.alias,
                              !.oid = cert.oid, !.password = password,
                              !.chain = chain, !.pre = Pre(cert.alias),
                              !.raised = r.raised,
                              !.branch = IF r.raised = "none" THEN "saved"
                                         ELSE "failed",
                              !.ret = IF r.raised = "none" THEN <<cert>> ELSE <<>>,
                              !.wrote = r.wrote]
    /\ UNCHANGED <<live, certs, handles, given, dnIn, dnOut>>

SavePKCS12With(events) ==
    \E cert \in Reachable, password \in Passwords, chain \in BOOLEAN, e1 \in events :
        Exported(cert, password, chain,
                 savePKCS12(cert, OutPath, password, chain, disk, tempfs, e1))

\* what a call of destroy leaves in the state
Destroyed(cert, r) ==
    /\ disk' = r.disk
    /\ certs' = r.certs
    /\ calls' = <<>>
    /\ lastOp' = [NoOp EXCEPT !.op = "destroy", !.alias = cert.alias,
                              !.oid = cert.oid, !.pre = Pre(cert.alias),
                              !.raised = r.raised,
                              !.branch = IF r.raised = "none" THEN "destroyed"
                                         ELSE "failed",
                              !.ret = <<cert>>, !.wrote = r.wrote]
    /\ UNCHANGED <<live, handles, tempfs, given, dnIn, dnOut>>

Destroy ==
    \E cert \in Reachable, strict \in BOOLEAN :
        Destroyed(cert, destroy(cert, disk, certs, strict))

(***************************************************************************)
(* Spec: the life of the certificates. The toolkit succeeds or exits       *)
(* nonzero; the system calls before it do not fail.                        *)
(***************************************************************************)
Construct == ConstructWith(ToolkitEvents)

Create == live /\ \E a \in SomeArgs : CreateWith(a, ToolkitEvents)

Next ==
    \/ Construct
    \/ Create
    \/ Destroy

Spec == Init /\ [][Next]_vars

(***************************************************************************)
(* SpecExport: one alias, the PKCS12 export with every password, and       *)
(* system calls that fail before the toolkit runs                          *)
(***************************************************************************)
ConstructFaulty == ConstructWith(Events)

CreateFaulty == live /\ \E a \in OneArgs : CreateWith(a, Events)

SavePKCS12 == SavePKCS12With(Events)

NextExport ==
    \/ ConstructFaulty
    \/ CreateFaulty
    \/ SavePKCS12
    \/ Destroy

SpecExport == Init /\ [][NextExport]_vars

(***************************************************************************)
(* SpecRoot: the CA certificate under its own alias: create("ca") and the  *)
(* PKCS12 export of whatever the caller holds                              *)
(***************************************************************************)
\* the calls of create the caller of SpecRoot makes
RootArgs == { a \in SomeArgs : a.alias \in {CaAlias, <<"s">>} /\ a.ip = None }

CreateRoot == live /\ \E a \in RootArgs : CreateWith(a, ToolkitEvents)

SavePKCS12Ran == SavePKCS12With(ToolkitEvents)

NextRoot ==
    \/ Construct
    \/ CreateRoot
    \/ SavePKCS12Ran

SpecRoot == Init /\ [][NextRoot]_vars

(***************************************************************************)
(* SpecArgs: create with every combination of arguments, on a factory      *)
(* whose constructor has just made the CA certificate                      *)
(***************************************************************************)
InitArgs ==
    /\ live = TRUE
    /\ disk = init([q \in {} |-> EmptyStr], {}, Ok).disk
    /\ certs = EmptyMap
    /\ handles = {}
    /\ tempfs = {}
    /\ calls = <<>>
    /\ lastOp = NoOp
    /\ given \in AllArgs
    /\ dnIn = NoneValue
    /\ dnOut = EmptyStr

CreateArgs == CreateWith(given, ToolkitEvents)

NextArgs == CreateArgs

SpecArgs == InitArgs /\ [][NextArgs]_vars

(***************************************************************************)
(* SpecDN: toDNSection on its own: every distinguished name, then the call *)
(***************************************************************************)
AttrValues == { Missing, None, EmptyStr, <<"x">> }

DNValues == { DNObject(a) : a \in [ShortNames -> AttrValues] }

InitDN ==
    /\ live = FALSE
    /\ disk = [q \in {} |-> EmptyStr]
    /\ certs = EmptyMap
    /\ handles = {}
    /\ tempfs = {}
    /\ calls = <<>>
    /\ lastOp = NoOp
    /\ given = NoArgs
    /\ dnIn \in DNValues
    /\ dnOut = EmptyStr

CallToDNSection ==
    /\ dnOut = EmptyStr
    /\ dnOut' = toDNSection(dnIn)
    /\ UNCHANGED <<live, disk, certs, handles, tempfs, calls, lastOp, given, dnIn>>

NextDN == CallToDNSection

SpecDN == InitDN /\ [][NextDN]_vars

(***************************************************************************)
(* Properties                                                              *)
(***************************************************************************)
\* the paths create derives from an alias
KeyPathOf(alias) == join(Home, alias \o <<"_key", ".pem">>)
PemPathOf(alias) == join(Home, alias \o <<".pem">>)

\* the step is a call of create(alias, ...)
IsCreateStep(alias) == lastOp'.op = "create" /\ lastOp'.alias = alias

\* C1: idempotence of create. For every alias other than "ca": a create of an
\* alias that is in the cache, and in particular a create that follows a
\* create of the same alias that returned a certificate, returns a certificate
\* with the same key path and certificate path, whatever dn, ip and dns are
\* passed, and makes no toolkit invocation (and writes no file).
C1_IdempotentCreate ==
    [][ \A alias \in Aliases \ {CaAlias} :
          ( /\ IsCreateStep(alias)
            /\ \/ alias \in DOMAIN certs
               \/ /\ lastOp.op = "create"
                  /\ lastOp.alias = alias
                  /\ lastOp.raised = "none" )
          => /\ alias \in DOMAIN certs
             /\ lastOp'.raised = "none"
             /\ lastOp'.ret = <<certs[alias]>>
             /\ lastOp'.ret[1].key = KeyPathOf(alias)
             /\ lastOp'.ret[1].pem = PemPathOf(alias)
             /\ calls' = <<>>
             /\ disk' = disk
             /\ certs' = certs ]_vars

\* C1, its case: a create has just returned the cached certificate of an
\* alias whose files are no longer both on disk
C1_Witness ==
    /\ lastOp.op = "create"
    /\ lastOp.alias = <<"s">>
    /\ lastOp.branch = "cached"
    /\ lastOp.pre.cached
    /\ ~lastOp.pre.key
    /\ calls = <<>>

\* C2: failure atomicity of create, as claimed. After a create that failed
\* (generate-request or sign-request exited nonzero) the alias is not in the
\* cache and neither <alias>_key.pem nor <alias>.pem is left on disk that was
\* not there before the call.
C2_FailedCreateLeavesNothing ==
    ( lastOp.op = "create" /\ lastOp.raised # "none" )
    => /\ lastOp.alias \notin DOMAIN certs
       /\ PathExists(disk, KeyPathOf(lastOp.alias)) => lastOp.pre.key
       /\ PathExists(disk, PemPathOf(lastOp.alias)) => lastOp.pre.pem

\* C3: temporary-file cleanup. When every toolkit invocation of an operation
\* (the constructor's bootstrap, create, savePKCS12) ran, whether it succeeded
\* or exited nonzero, each temporary file the operation made is gone when it
\* ends, and the operation leaves no temporary file that was not there before.
C3_TempFilesRemoved ==
    [][ ( /\ calls' # <<>>
          /\ \A i \in 1..Len(calls') : calls'[i].ran )
        => /\ tempfs' \subseteq tempfs
           /\ \A i \in 1..Len(calls') : Range(calls'[i].tmpfiles) \cap tempfs' = {} ]_vars

\* C3, its case: an invocation that made a temporary file exited nonzero and
\* no temporary file is left
C3_Witness ==
    /\ calls # <<>>
    /\ \E i \in 1..Len(calls) : /\ calls[i].ran
                                /\ calls[i].rc # 0
                                /\ calls[i].tmpfiles # <<>>
    /\ lastOp.raised = "CommandFailed"
    /\ tempfs = {}

\* the step is a destroy() that returned, of a certificate create made
IsDestroyStep(alias) ==
    /\ lastOp'.op = "destroy"
    /\ lastOp'.alias = alias
    /\ lastOp'.oid = "created"
    /\ lastOp'.raised = "none"

C5_DestroyToleratesMissingKey ==
    lastOp.op = "destroy"
    => /\ ~exists(disk, lastOp.ret[1])
       /\ ~PathExists(disk, lastOp.ret[1].key)
       /\ lastOp.raised # "OSError:key"
       /\ lastOp.raised = "none" => ~PathExists(disk, lastOp.ret[1].pem)

\* C5, its case: a destroy() of a certificate whose key file was absent has
\* returned
C5_Witness ==
    /\ lastOp.op = "destroy"
    /\ ~lastOp.pre.key
    /\ lastOp.raised = "none"

\* the invocation is self-sign-root
IsSelfSignRoot(call) == call.cmd = "req" /\ In("-x509", call.args)

\* C6: the CA root is bootstrapped at most once. A constructor that finds the
\* CA certificate on disk makes no invocation and leaves every file as it
\* is; one that does not find it makes exactly one invocation, self-sign-root.
\* No operation runs self-sign-root while the CA certificate is on disk.
C6_BootstrapOnlyWhenAbsent ==
    [][ /\ lastOp'.op = "init"
           => IF exists(disk, cacert)
              THEN calls' = <<>> /\ disk' = disk
              ELSE Len(calls') = 1 /\ IsSelfSignRoot(calls'[1])
        /\ \A i \in 1..Len(calls') :
              ( calls' # calls /\ IsSelfSignRoot(calls'[i]) ) => ~exists(disk, cacert) ]_vars

\* C6, its case: a factory was constructed on a home that holds the CA
\* certificate
C6_Witness ==
    /\ lastOp.op = "init"
    /\ lastOp.pre.pem
    /\ lastOp.pre.key
    /\ lastOp.raised = "none"
    /\ calls = <<>>

\* C7: adoption from disk. A create of an alias that is not in the cache
\* and whose certificate (key and certificate file) is on disk puts the alias
\* in the cache and returns the certificate, without any toolkit invocation
\* and without changing any file.
C7_AdoptionFromDisk ==
    [][ \A alias \in Aliases :
          ( /\ IsCreateStep(alias)
            /\ alias \notin DOMAIN certs
            /\ PathExists(disk, KeyPathOf(alias))
            /\ PathExists(disk, PemPathOf(alias)) )
          => /\ lastOp'.raised = "none"
             /\ alias \in DOMAIN certs'
             /\ lastOp'.ret = <<certs'[alias]>>
             /\ lastOp'.ret[1].key = KeyPathOf(alias)
             /\ lastOp'.ret[1].pem = PemPathOf(alias)
             /\ calls' = <<>>
             /\ disk' = disk
             /\ tempfs' = tempfs ]_vars

\* C7, its case: a create on a new factory has adopted a certificate an
\* earlier factory issued
C7_Witness ==
    /\ lastOp.op = "create"
    /\ lastOp.alias = <<"s">>
    /\ lastOp.branch = "adopted"
    /\ ~lastOp.pre.cached
    /\ <<"s">> \in DOMAIN certs

\* C8: savePKCS12 on the factory's own root certificate never embeds a
\* private key. For every password and chain, the export of the root has
\* -nokeys and no inkey (and no CAfile); the export of a leaf has no -nokeys,
\* passes the leaf's own key as inkey, and passes the CA certificate as
\* CAfile exactly when chain is true.
C8_RootExportHasNoKey ==
    ( lastOp.op = "savePKCS12" /\ calls # <<>> )
    => LET call == calls[1]
       IN  /\ call.cmd = "pkcs12"
           /\ call.kargs["out"] = OutPath
           /\ IF lastOp.oid = cacert.oid
              THEN /\ In("-nokeys", call.args)
                   /\ call.kargs["inkey"] = NotGiven
                   /\ call.kargs["CAfile"] = NotGiven
              ELSE /\ ~In("-nokeys", call.args)
                   /\ call.kargs["inkey"] = KeyPathOf(lastOp.alias)
                   /\ (call.kargs["CAfile"] # NotGiven) <=> lastOp.chain
                   /\ lastOp.chain => call.kargs["CAfile"] = cacert.pem
                   /\ In("-chain", call.args) <=> lastOp.chain

\* C8, its case: the root certificate was exported with chain = True
C8_Witness ==
    /\ lastOp.op = "savePKCS12"
    /\ lastOp.oid = cacert.oid
    /\ lastOp.chain
    /\ lastOp.raised = "none"
    /\ calls # <<>>
    /\ calls[1].ran

\* the positions of token t in text x
Positions(x, t) == {i \in 1..Len(x) : x[i] = t}

\* text x has value v right after position i
ValueAt(x, i, v) == /\ i + Len(v) <= Len(x)
                    /\ \A j \in 1..Len(v) : x[i + j] = v[j]

\* C9: Subject Alternative Name construction in create. The extension config
\* written for sign-request has, with dns only, one subjectAltName line with
\* the DNS entry and no IP entry; with ip only, one with the IP entry and no
\* DNS entry; with both, both entries, DNS before IP; with neither, no
\* subjectAltName line. The key-usage and key-identifier lines are there in
\* all four cases.
C9_SubjectAltName ==
    ( lastOp.op = "create" /\ Len(calls) = 2 )
    => LET x   == calls[2].written[1]
           san == Positions(x, "subjectAltName = ")
           pd  == Positions(x, "DNS: ")
           pi  == Positions(x, "IP: ")
           hasDns == Truthy(given.dns)
           hasIp  == Truthy(given.ip)
       IN  /\ calls[2].cmd = "x509"
           /\ calls[2].command[3] = <<"-", "extfile">>
           /\ calls[2].command[4] = calls[2].tmpfiles[1]
           /\ In("keyUsage = nonRepudiation, digitalSignature, keyEncipherment", x)
           /\ In("subjectKeyIdentifier = hash", x)
           /\ In("authorityKeyIdentifier = keyid:always,issuer:always", x)
           /\ Cardinality(san) = (IF hasDns \/ hasIp THEN 1 ELSE 0)
           /\ Cardinality(pd) = (IF hasDns THEN 1 ELSE 0)
           /\ Cardinality(pi) = (IF hasIp THEN 1 ELSE 0)
           /\ \A i \in pd : ValueAt(x, i, given.dns) /\ \A s \in san : s < i
           /\ \A i \in pi : ValueAt(x, i, given.ip) /\ \A s \in san : s < i
           /\ \A i \in pd, j \in pi : i < j

\* C9, its case: sign-request ran for a create with both dns and ip
C9_Witness ==
    /\ lastOp.op = "create"
    /\ lastOp.branch = "issued"
    /\ Truthy(given.dns)
    /\ Truthy(given.ip)
    /\ Len(calls) = 2
    /\ Positions(calls[2].written[1], "DNS: ") # {}

\* the order of the fields, by attribute
FieldOrder == <<"C", "OU", "O", "L", "ST", "CN", "emailAddress">>

\* the name a field has in the section
FieldName(short) ==
    DNFields[CHOOSE i \in 1..Len(DNFields) : DNFields[i][2] = short][1]

\* field number i is populated: there, not None, not empty
Populated(dn, i) == dn.attrs[FieldOrder[i]] \notin {Missing, None, EmptyStr}

\* the number of the j-th populated field
NthPopulated(dn, j) ==
    CHOOSE i \in 1..Len(FieldOrder) :
        /\ Populated(dn, i)
        /\ Cardinality({k \in 1..i : Populated(dn, k)}) = j

\* C10: toDNSection output. For every distinguished name the section is the
\* header followed by one line for each populated field, each once, in the
\* order C, OU, O, L, ST, CN, emailAddress, with the field's value, and by
\* nothing else: a field that is missing, None or empty has no line.
C10_ToDNSection ==
    dnOut # EmptyStr
    => LET n == Cardinality({i \in 1..Len(FieldOrder) : Populated(dnIn, i)})
       IN  /\ Len(dnOut) = 2 + 4 * n
           /\ dnOut[1] = "[ dn ]"
           /\ dnOut[2] = "\n"
           /\ \A j \in 1..n :
                LET f == FieldOrder[NthPopulated(dnIn, j)]
                IN  /\ dnOut[4 * j - 1] = FieldName(f)
                    /\ dnOut[4 * j] = " = "
                    /\ <<dnOut[4 * j + 1]>> = dnIn.attrs[f]
                    /\ dnOut[4 * j + 2] = "\n"

\* C10, its case: the section of a name with populated, empty, None and
\* missing fields
C10_Witness ==
    /\ dnOut # EmptyStr
    /\ dnIn.attrs["C"] = <<"x">>
    /\ dnIn.attrs["OU"] = EmptyStr
    /\ dnIn.attrs["O"] = None
    /\ dnIn.attrs["L"] = Missing
    /\ dnIn.attrs["CN"] = <<"x">>
    /\ Len(dnOut) > 2

\* the invocation is generate-request, sign-request
IsGenerateRequest(call) == call.cmd = "req" /\ ~In("-x509", call.args)
IsSignRequest(call) == call.cmd = "x509" /\ In("-req", call.args)

\* C11: no retries and failure propagation. An operation whose toolkit
\* invocation exits nonzero raises to its caller and makes no invocation
\* after the failed one; a constructor or an export makes at most one
\* invocation; a create makes at most one generate-request and at most one
\* sign-request, and none after a generate-request that failed.
C11_NoRetry ==
    /\ Len(calls) <= (IF lastOp.op = "create" THEN 2 ELSE 1)
    /\ \A i \in 1..Len(calls) :
          calls[i].rc # 0 => /\ i = Len(calls)
                             /\ lastOp.raised # "none"
                             /\ calls[i].ran => lastOp.raised = "CommandFailed"
    /\ lastOp.op = "create"
       => /\ Cardinality({i \in 1..Len(calls) : IsGenerateRequest(calls[i])}) <= 1
          /\ Cardinality({i \in 1..Len(calls) : IsSignRequest(calls[i])}) <= 1
          /\ \A i \in 1..Len(calls) : IsSignRequest(calls[i]) =>
                /\ i = 2
                /\ IsGenerateRequest(calls[1])
                /\ calls[1].rc = 0

\* C11, its case: generate-request exited nonzero in a create, which raised
\* after that one invocation
C11_Witness ==
    /\ lastOp.op = "create"
    /\ lastOp.raised = "CommandFailed"
    /\ Len(calls) = 1
    /\ IsGenerateRequest(calls[1])
    /\ calls[1].ran
    /\ calls[1].rc # 0

\* the password the caller passed to the operation (None: it passed none)
PasswordPassed == IF lastOp.op = "savePKCS12" THEN lastOp.password ELSE None

\* C12: passphrases are never passed as plain command arguments, as claimed.
\* For every invocation (self-sign-root, sign-request, pkcs12 export) and
\* every password value: nothing is forwarded to the process runner under
\* the password keyword, the password value is no word of the command line
\* and no forwarded argument, and the CA's passphrase is named by its file.
C12_PassphraseNeverPlain ==
    \A i \in 1..Len(calls) :
        /\ calls[i].kargs["password"] = NotGiven
        /\ lastOp.op = "savePKCS12"
           => /\ \A k \in KargKeys : calls[i].kargs[k] # PasswordPassed
              /\ \A w \in Range(calls[i].command) : w # PasswordPassed
              /\ \A a \in Range(calls[i].args) : <<a>> # PasswordPassed
        /\ IsSelfSignRoot(calls[i])
           => OptValue(calls[i].command, <<"-passout">>) = <<"file:">> \o ThisPasspath
        /\ IsSignRequest(calls[i])
           => OptValue(calls[i].command, <<"-passin">>) = <<"file:">> \o ThisPasspath

\* the step is a create of an alias that is new: not in the cache, and its
\* certificate not on disk
IsCreateOfNew(alias) ==
    /\ IsCreateStep(alias)
    /\ alias \notin DOMAIN certs
    /\ ~(PathExists(disk, KeyPathOf(alias)) /\ PathExists(disk, PemPathOf(alias)))

\* the output captured from the generate-request invocation call, run on
\* filesystem d with temporary files fs
CapturedOutput(call, d, fs) ==
    Toolkit(call.cmd, call.command, call.args, call.kargs, d,
            fs \cup Range(call.tmpfiles), "ok").stdout

\* C13: ordering inside create for a new alias. The first invocation is
\* generate-request; sign-request is invoked exactly when generate-request
\* succeeded, after it, with the output captured from it as its input; the
\* alias is in the cache after the call exactly when sign-request succeeded.
C13_CreateOrdering ==
    [][ \A alias \in Aliases :
          IsCreateOfNew(alias)
          => /\ Len(calls') \in {1, 2}
             /\ IsGenerateRequest(calls'[1])
             /\ (Len(calls') = 2) <=> (calls'[1].rc = 0)
             /\ Len(calls') = 2
                => /\ IsSignRequest(calls'[2])
                   /\ calls'[2].kargs["stdin"] = CapturedOutput(calls'[1], disk, tempfs)
                   /\ Truthy(calls'[2].kargs["stdin"])
             /\ (alias \in DOMAIN certs')
                <=> (Len(calls') = 2 /\ calls'[2].rc = 0) ]_vars

\* C13, its case: a create of a new alias whose generate-request succeeded
\* and whose sign-request exited nonzero: the alias is not in the cache
C13_Witness ==
    /\ lastOp.op = "create"
    /\ lastOp.alias = <<"s">>
    /\ ~lastOp.pre.cached
    /\ ~lastOp.pre.pem
    /\ Len(calls) = 2
    /\ calls[1].rc = 0
    /\ IsSignRequest(calls[2])
    /\ calls[2].rc # 0
    /\ <<"s">> \notin DOMAIN certs

\* C14: scoped acquisition on every error path, as claimed. Every temporary
\* file an invocation allocated is gone when the invocation is left, on
\* every path, also when a system call fails before the toolkit is run.
C14_TempFilesReleasedOnEveryPath ==
    \A i \in 1..Len(calls) : Range(calls[i].tmpfiles) \cap tempfs = {}

\* C15: the CA private key is never bundled by any export, as claimed. Over
\* every sequence of constructions, create calls (create("ca") among them)
\* and savePKCS12 calls, no pkcs12 export invocation has inkey equal to the
\* CA's key path.
C15_CAKeyNeverExported ==
    \A i \in 1..Len(calls) :
        calls[i].cmd = "pkcs12" => calls[i].kargs["inkey"] # KeyPathOf(CaAlias)

\* the file at path on filesystem d: its content, or that it is not there
FileAt(d, path) == IF path \in DOMAIN d THEN d[path] ELSE <<"<absent>">>

\* C16: aliases do not share artifacts, as claimed. For any two distinct
\* aliases A and B, a create(B, ...) or a destroy() of B's certificate
\* leaves A's key file and certificate file as they were, and with them
\* exists() of A (which is what disjoint artifact paths would give).
C16_AliasesShareNoArtifacts ==
    [][ \A A \in Aliases : \A B \in Aliases \ {A} :
          ( lastOp'.op \in {"create", "destroy"} /\ lastOp'.alias = B )
          => /\ FileAt(disk', KeyPathOf(A)) = FileAt(disk, KeyPathOf(A))
             /\ FileAt(disk', PemPathOf(A)) = FileAt(disk, PemPathOf(A))
             /\ exists(disk', OpenSSLCertificate(A, "created"))
                <=> exists(disk, OpenSSLCertificate(A, "created")) ]_vars

\* C17: every pkcs12 export is password-protected through a live passphrase
\* file, as claimed. For every password a caller passes to savePKCS12, the
\* empty string and None among them, the export that runs has a -passout
\* argument naming a temporary file of the call, made before the toolkit
\* runs and holding the password, and the password keyword is not forwarded
\* to the process runner.
C17_ExportPasswordProtected ==
    \A i \in 1..Len(calls) :
        ( calls[i].cmd = "pkcs12" /\ calls[i].ran )
        => /\ calls[i].tmpfiles # <<>>
           /\ OptValue(calls[i].command, <<"-passout">>)
                 = <<"file:">> \o calls[i].tmpfiles[Len(calls[i].tmpfiles)]
           /\ calls[i].written[Len(calls[i].tmpfiles)] = lastOp.password
           /\ calls[i].kargs["password"] = NotGiven

====
